---- MODULE Spec2Model ----
(***************************************************************************)
(* The forum feature of air-quality-prediction: the forum API              *)
(* (posts/route.ts, posts/[id]/route.ts, posts/[id]/comments/route.ts,     *)
(* comments/[id]/route.ts) over the relational store, and the forum page   *)
(* (ForumPage) that calls it.                                              *)
(*                                                                         *)
(* A handler runs from one `await pool.query` to the next as one atomic    *)
(* step: the store executes one statement at a time, and the code between  *)
(* two statements touches only the request's own locals.  Handlers of      *)
(* different requests interleave at those awaits.  Any statement may fail  *)
(* (the store is unreachable, a constraint is violated): the handler's     *)
(* catch turns that into a 500.  Two multi-statement requests (Slots) run  *)
(* at a time, with any number of single-statement ones between their       *)
(* steps; the page has two handlers suspended at a time (CallSlots).       *)
(*                                                                         *)
(* created_at / updated_at are not represented: no handler branches on a   *)
(* timestamp, and GET's result is kept as a set of rows, not in its        *)
(* created_at order.                                                       *)
(***************************************************************************)
EXTENDS Integers, FiniteSets, Sequences, TLC

VARIABLES
    forum_posts,    \* table forum_posts: live post id -> row
    comments,       \* table comments: live comment id -> row
    nextPostId,     \* serial of forum_posts.id
    nextCommentId,  \* serial of comments.id
    reqs,           \* the requests in flight between two statements
    lastResp,       \* the response the last step sent (NoResp if none)
    created201,     \* history: post ids a POST /forum/posts returned with 201
    deleted200P,    \* history: post ids a DELETE returned 200 for
    deleted200C,    \* history: comment ids a DELETE returned 200 for
    requests,       \* history: number of requests received so far
    \* The forum page (ForumPage): its React state,
    posts, showNewPostForm, newPost, commentInputs, loading, currentUser,
    editingPost, editingComment,
    calls,          \* its async handlers suspended at an await
    mounted,        \* whether the mount effect has run
    events,         \* history: number of user events so far
    lastEffect,     \* what the last step of the page did
    inFlight,       \* its fetchPosts calls awaiting their response, oldest first
    overtaken,      \* history: those of them a later one has answered before
    lastList,       \* history: the list of the last successful fetchPosts response
    arrivedOvertaken, \* history: the last step handled the response of an overtaken call
    changedDrafts   \* history: the posts whose comment draft the last step changed

serverVars == <<forum_posts, comments, nextPostId, nextCommentId, reqs, lastResp,
                created201, deleted200P, deleted200C, requests>>

viewState == <<posts, showNewPostForm, newPost, commentInputs, loading,
               currentUser, editingPost, editingComment>>
fetchHistory == <<inFlight, overtaken, lastList, arrivedOvertaken>>
viewVars == <<viewState, calls, mounted, events, lastEffect, fetchHistory,
              changedDrafts>>
vars == <<serverVars, viewVars>>

(***************************************************************************)
(* Bounds of the model.                                                    *)
(***************************************************************************)
MaxPosts == 1
MaxComments == 1
MaxRequests == 3

PostIds == 1..MaxPosts
CommentIds == 1..MaxComments
Slots == {"r1", "r2"}

(***************************************************************************)
(* Users (table users, owned by the identity system) and request bodies.   *)
(***************************************************************************)
Users == {1, 2, 3}
Role(u) == IF u = 3 THEN "admin" ELSE "user"

Missing == "undefined"
Falsy(v) == v \in {Missing, ""}

PostBodies ==
    { [title |-> Missing, content |-> "a"], [title |-> "a", content |-> ""],
      [title |-> "a", content |-> "a"], [title |-> "b", content |-> "b"] }
CommentBodies ==
    { [title |-> Missing, content |-> c] : c \in {Missing, "", "a", "b"} }
NoBody == [title |-> Missing, content |-> Missing]

NoRecord == [id |-> 0, title |-> Missing, content |-> Missing]
Idle == [kind |-> "idle", pc |-> "idle", actor |-> 0, id |-> 0,
         body |-> NoBody, had |-> {}]
NoResp == [kind |-> "none", actor |-> 0, id |-> 0, body |-> NoBody,
           status |-> 0, fault |-> FALSE, record |-> NoRecord, list |-> {},
           had |-> {}]

Resp(kind, actor, id, body, status) ==
    [kind |-> kind, actor |-> actor, id |-> id, body |-> body,
     status |-> status, fault |-> FALSE, record |-> NoRecord, list |-> {},
     had |-> {}]

(***************************************************************************)
(* The store's statements, as the handlers issue them.                     *)
(***************************************************************************)
\* SELECT user_id FROM <table> WHERE id = $1: the rows, as a set of owners.
SelectOwner(table, id) ==
    IF id \in DOMAIN table THEN {table[id].user_id} ELSE {}

\* Mutants of the ownership gate: the role test inverted; the 403 branch
\* missing; a missing row answered as a success.
OwnerGateRoleFlipped(rows, actor) ==
    IF rows = {} THEN 404
    ELSE LET ownerId == CHOOSE o \in rows : TRUE
         IN  IF ownerId # actor /\ Role(actor) = "admin" THEN 403 ELSE 0
OwnerGateNoOwnerCheck(rows, actor) ==
    IF rows = {} THEN 404 ELSE 0
OwnerGateMissingIsSuccess(rows, actor) ==
    IF rows = {} THEN 200
    ELSE LET ownerId == CHOOSE o \in rows : TRUE
         IN  IF ownerId # actor /\ Role(actor) # "admin" THEN 403 ELSE 0

\* The ownership gate every PUT and DELETE handler repeats after its SELECT:
\* 404 for no row, 403 for an actor who is neither the owner nor an admin,
\* 0 when the handler goes on to its write.
OwnerGate(rows, actor) ==
    IF rows = {} THEN 404
    ELSE LET ownerId == CHOOSE o \in rows : TRUE
         IN  IF ownerId # actor /\ Role(actor) # "admin" THEN 403 ELSE 0

Without(table, ids) == [k \in DOMAIN table \ ids |-> table[k]]
With(table, id, row) == [k \in DOMAIN table \cup {id} |-> IF k = id THEN row ELSE table[k]]

\* INSERT INTO forum_posts (user_id, title, content, created_at)
InsertPost(ps, id, actor, body) ==
    With(ps, id, [user_id |-> actor, title |-> body.title, content |-> body.content])

\* UPDATE forum_posts SET title, content, updated_at WHERE id = $4
UpdatePost(ps, id, body) ==
    IF id \in DOMAIN ps
    THEN [ps EXCEPT ![id].title = body.title, ![id].content = body.content]
    ELSE ps

\* Mutant: the statement deletes nothing.
DeleteCommentsOfPostNone(cs, pid) == cs

\* DELETE FROM comments WHERE post_id = $1
DeleteCommentsOfPost(cs, pid) ==
    Without(cs, {c \in DOMAIN cs : cs[c].post_id = pid})

\* Mutant: the statement matches no row.
DeletePostRowNone(ps, id) == ps

\* DELETE FROM forum_posts WHERE id = $1
DeletePostRow(ps, id) == Without(ps, {id})

\* INSERT INTO comments (post_id, user_id, content, created_at)
InsertComment(cs, id, pid, actor, body) ==
    With(cs, id, [post_id |-> pid, user_id |-> actor, content |-> body.content])

\* UPDATE comments SET content, updated_at WHERE id = $3
UpdateComment(cs, id, body) ==
    IF id \in DOMAIN cs THEN [cs EXCEPT ![id].content = body.content] ELSE cs

\* DELETE FROM comments WHERE id = $1
DeleteCommentRow(cs, id) == Without(cs, {id})

\* The foreign key comments.post_id -> forum_posts.id of the schema: an
\* insert of a comment needs its post, and a post that a comment references
\* cannot be deleted (no ON DELETE action: the handler deletes the comments
\* itself, first).
FkAllowsCommentInsert(ps, pid) == pid \in DOMAIN ps
FkAllowsPostDelete(cs, pid) == \A c \in DOMAIN cs : cs[c].post_id # pid

\* The RETURNING row of an UPDATE, or NoRecord when it matched no row.
Returning(table, id) ==
    IF id \in DOMAIN table
    THEN [id |-> id,
          title |-> IF "title" \in DOMAIN table[id] THEN table[id].title ELSE Missing,
          content |-> table[id].content]
    ELSE NoRecord

\* The rows of GET's SELECT: every post joined to its author, with the
\* comments that reference it.
SelectPosts(ps, cs) ==
    { [id |-> p, title |-> ps[p].title, content |-> ps[p].content,
       user_id |-> ps[p].user_id,
       comments |-> { [id |-> c, content |-> cs[c].content, user_id |-> cs[c].user_id]
                      : c \in {k \in DOMAIN cs : cs[k].post_id = p} }]
      : p \in {k \in DOMAIN ps : ps[k].user_id \in Users} }

(***************************************************************************)
(* Initial state: an empty forum, no request in flight.                    *)
(***************************************************************************)
ServerInit ==
    /\ forum_posts = <<>>
    /\ comments = <<>>
    /\ nextPostId = 1
    /\ nextCommentId = 1
    /\ reqs = [s \in Slots |-> Idle]
    /\ lastResp = NoResp
    /\ created201 = {}
    /\ deleted200P = {}
    /\ deleted200C = {}
    /\ requests = 0

Faulted(r) == [r EXCEPT !.status = 500, !.fault = TRUE]

\* Mutant: only the title is validated.
MissingTitleOnly(body) == Falsy(body.title)

\* `if (!title || !content)` of the post handlers, `if (!content)` of the
\* comment handlers.
MissingTitleOrContent(body) == Falsy(body.title) \/ Falsy(body.content)
MissingContent(body) == Falsy(body.content)

\* Mutants: the statement's error is swallowed and the success is sent.
CreateCommentStatusSwallowed(threw) == 201
DeletePostStatusSwallowed(threw) == 200

\* try { ... return ok } catch { return 500 }: the status a handler ends with.
CreatePostStatus(threw) == IF threw THEN 500 ELSE 201
CreateCommentStatus(threw) == IF threw THEN 500 ELSE 201
DeletePostStatus(threw) == IF threw THEN 500 ELSE 200
DeleteCommentStatus(threw) == IF threw THEN 500 ELSE 200

FreeSlot(s) == reqs[s] = Idle
Start(s, kind, pc, actor, id, body, had) ==
    reqs' = [reqs EXCEPT ![s] = [kind |-> kind, pc |-> pc, actor |-> actor,
                                 id |-> id, body |-> body, had |-> had]]
Finish(s) == reqs' = [reqs EXCEPT ![s] = Idle]
CommentsOf(cs, pid) == {c \in DOMAIN cs : cs[c].post_id = pid}

(***************************************************************************)
(* GET /forum/posts: one SELECT.                                           *)
(***************************************************************************)
GetPosts ==
    \E fault \in BOOLEAN :
        /\ lastResp' =
              IF fault THEN Faulted(Resp("getPosts", 0, 0, NoBody, 500))
              ELSE [Resp("getPosts", 0, 0, NoBody, 200)
                       EXCEPT !.list = SelectPosts(forum_posts, comments)]
        /\ UNCHANGED <<forum_posts, comments, nextPostId, nextCommentId, reqs,
                       created201, deleted200P, deleted200C>>

(***************************************************************************)
(* POST /forum/posts: validation, then one INSERT.                         *)
(***************************************************************************)
CreatePost(actor, body) ==
    IF MissingTitleOrContent(body)
    THEN /\ lastResp' = Resp("createPost", actor, 0, body, 400)
         /\ UNCHANGED <<forum_posts, comments, nextPostId, nextCommentId, reqs,
                        created201, deleted200P, deleted200C>>
    ELSE \E fault \in BOOLEAN :
         /\ nextPostId <= MaxPosts
         /\ IF fault
            THEN /\ lastResp' = Faulted(Resp("createPost", actor, 0, body, CreatePostStatus(TRUE)))
                 /\ UNCHANGED <<forum_posts, nextPostId, created201>>
            ELSE /\ forum_posts' = InsertPost(forum_posts, nextPostId, actor, body)
                 /\ nextPostId' = nextPostId + 1
                 /\ lastResp' = [Resp("createPost", actor, nextPostId, body, CreatePostStatus(FALSE))
                                   EXCEPT !.record = Returning(forum_posts', nextPostId)]
                 /\ created201' = IF lastResp'.status = 201
                                  THEN created201 \cup {nextPostId} ELSE created201
         /\ UNCHANGED <<comments, nextCommentId, reqs, deleted200P, deleted200C>>

(***************************************************************************)
(* POST /forum/posts/{id}/comments: validation, then one INSERT, which the *)
(* foreign key rejects when the post does not exist.                       *)
(***************************************************************************)
CreateComment(actor, id, body) ==
    IF MissingContent(body)
    THEN /\ lastResp' = Resp("createComment", actor, id, body, 400)
         /\ UNCHANGED <<forum_posts, comments, nextPostId, nextCommentId, reqs,
                        created201, deleted200P, deleted200C>>
    ELSE \E fault \in BOOLEAN :
         /\ nextCommentId <= MaxComments
         /\ IF fault \/ ~FkAllowsCommentInsert(forum_posts, id)
            THEN /\ lastResp' = [Resp("createComment", actor, id, body, CreateCommentStatus(TRUE))
                                   EXCEPT !.fault = fault]
                 /\ UNCHANGED <<comments, nextCommentId>>
            ELSE /\ comments' = InsertComment(comments, nextCommentId, id, actor, body)
                 /\ nextCommentId' = nextCommentId + 1
                 /\ lastResp' = [Resp("createComment", actor, id, body, CreateCommentStatus(FALSE))
                                   EXCEPT !.record = Returning(comments', nextCommentId)]
         /\ UNCHANGED <<forum_posts, nextPostId, reqs, created201, deleted200P, deleted200C>>

(***************************************************************************)
(* PUT /forum/posts/{id}: validation, SELECT and ownership gate, then the  *)
(* UPDATE.  An UPDATE that matches no row (the post was deleted after the  *)
(* SELECT) returns no row: NextResponse.json(undefined) either throws,     *)
(* which the catch turns into 500, or sends a 200 without a record,        *)
(* depending on the runtime.                                               *)
(***************************************************************************)
PutPostStart(s, actor, id, body) ==
    /\ FreeSlot(s)
    /\ UNCHANGED <<forum_posts, comments, nextPostId, nextCommentId,
                   created201, deleted200P, deleted200C>>
    /\ IF MissingTitleOrContent(body)
       THEN /\ lastResp' = Resp("putPost", actor, id, body, 400)
            /\ UNCHANGED reqs
       ELSE \E fault \in BOOLEAN :
            IF fault
            THEN /\ lastResp' = Faulted(Resp("putPost", actor, id, body, 500))
                 /\ UNCHANGED reqs
            ELSE LET gate == OwnerGate(SelectOwner(forum_posts, id), actor)
                 IN  IF gate # 0
                     THEN /\ lastResp' = Resp("putPost", actor, id, body, gate)
                          /\ UNCHANGED reqs
                     ELSE /\ lastResp' = NoResp
                          /\ Start(s, "putPost", "update", actor, id, body, {})

PutPostUpdate(s) ==
    LET r == reqs[s] IN
    /\ r.kind = "putPost" /\ r.pc = "update"
    /\ Finish(s)
    /\ UNCHANGED <<comments, nextPostId, nextCommentId,
                   created201, deleted200P, deleted200C>>
    /\ \E fault \in BOOLEAN :
       IF fault
       THEN /\ lastResp' = Faulted(Resp("putPost", r.actor, r.id, r.body, 500))
            /\ UNCHANGED forum_posts
       ELSE /\ forum_posts' = UpdatePost(forum_posts, r.id, r.body)
            /\ \E status \in (IF r.id \in DOMAIN forum_posts THEN {200} ELSE {200, 500}) :
               lastResp' = [Resp("putPost", r.actor, r.id, r.body, status)
                              EXCEPT !.record = IF status = 200
                                                THEN Returning(forum_posts', r.id)
                                                ELSE NoRecord]

(***************************************************************************)
(* DELETE /forum/posts/{id}: SELECT and ownership gate, DELETE of the      *)
(* post's comments, DELETE of the post: three statements, no transaction.  *)
(***************************************************************************)
DeletePostStart(s, actor, id) ==
    /\ FreeSlot(s)
    /\ UNCHANGED <<forum_posts, comments, nextPostId, nextCommentId,
                   created201, deleted200P, deleted200C>>
    /\ \E fault \in BOOLEAN :
       IF fault
       THEN /\ lastResp' = Faulted(Resp("deletePost", actor, id, NoBody, 500))
            /\ UNCHANGED reqs
       ELSE LET gate == OwnerGate(SelectOwner(forum_posts, id), actor)
            IN  IF gate # 0
                THEN /\ lastResp' = Resp("deletePost", actor, id, NoBody, gate)
                     /\ UNCHANGED reqs
                ELSE /\ lastResp' = NoResp
                     /\ Start(s, "deletePost", "comments", actor, id, NoBody,
                              CommentsOf(comments, id))

DeletePostComments(s) ==
    LET r == reqs[s] IN
    /\ r.kind = "deletePost" /\ r.pc = "comments"
    /\ UNCHANGED <<forum_posts, nextPostId, nextCommentId,
                   created201, deleted200P, deleted200C>>
    /\ \E fault \in BOOLEAN :
       IF fault
       THEN /\ lastResp' = Faulted(Resp("deletePost", r.actor, r.id, NoBody, DeletePostStatus(TRUE)))
            /\ Finish(s)
            /\ UNCHANGED comments
       ELSE /\ comments' = DeleteCommentsOfPost(comments, r.id)
            /\ lastResp' = NoResp
            /\ reqs' = [reqs EXCEPT ![s].pc = "post"]

DeletePostPost(s) ==
    LET r == reqs[s] IN
    /\ r.kind = "deletePost" /\ r.pc = "post"
    /\ Finish(s)
    /\ UNCHANGED <<comments, nextPostId, nextCommentId, created201, deleted200C>>
    /\ \E fault \in BOOLEAN :
       LET threw == fault \/ ~FkAllowsPostDelete(comments, r.id)
           status == DeletePostStatus(threw)
       IN  /\ forum_posts' = IF threw THEN forum_posts ELSE DeletePostRow(forum_posts, r.id)
           /\ lastResp' = [Resp("deletePost", r.actor, r.id, NoBody, status)
                             EXCEPT !.fault = fault, !.had = r.had]
           /\ deleted200P' = IF status = 200 THEN deleted200P \cup {r.id}
                             ELSE deleted200P

(***************************************************************************)
(* PUT and DELETE /forum/comments/{id}: the same gate on table comments.   *)
(***************************************************************************)
PutCommentStart(s, actor, id, body) ==
    /\ FreeSlot(s)
    /\ UNCHANGED <<forum_posts, comments, nextPostId, nextCommentId,
                   created201, deleted200P, deleted200C>>
    /\ IF MissingContent(body)
       THEN /\ lastResp' = Resp("putComment", actor, id, body, 400)
            /\ UNCHANGED reqs
       ELSE \E fault \in BOOLEAN :
            IF fault
            THEN /\ lastResp' = Faulted(Resp("putComment", actor, id, body, 500))
                 /\ UNCHANGED reqs
            ELSE LET gate == OwnerGate(SelectOwner(comments, id), actor)
                 IN  IF gate # 0
                     THEN /\ lastResp' = Resp("putComment", actor, id, body, gate)
                          /\ UNCHANGED reqs
                     ELSE /\ lastResp' = NoResp
                          /\ Start(s, "putComment", "update", actor, id, body, {})

PutCommentUpdate(s) ==
    LET r == reqs[s] IN
    /\ r.kind = "putComment" /\ r.pc = "update"
    /\ Finish(s)
    /\ UNCHANGED <<forum_posts, nextPostId, nextCommentId,
                   created201, deleted200P, deleted200C>>
    /\ \E fault \in BOOLEAN :
       IF fault
       THEN /\ lastResp' = Faulted(Resp("putComment", r.actor, r.id, r.body, 500))
            /\ UNCHANGED comments
       ELSE /\ comments' = UpdateComment(comments, r.id, r.body)
            /\ \E status \in (IF r.id \in DOMAIN comments THEN {200} ELSE {200, 500}) :
               lastResp' = [Resp("putComment", r.actor, r.id, r.body, status)
                              EXCEPT !.record = IF status = 200
                                                THEN Returning(comments', r.id)
                                                ELSE NoRecord]

DeleteCommentStart(s, actor, id) ==
    /\ FreeSlot(s)
    /\ UNCHANGED <<forum_posts, comments, nextPostId, nextCommentId,
                   created201, deleted200P, deleted200C>>
    /\ \E fault \in BOOLEAN :
       IF fault
       THEN /\ lastResp' = Faulted(Resp("deleteComment", actor, id, NoBody, 500))
            /\ UNCHANGED reqs
       ELSE LET gate == OwnerGate(SelectOwner(comments, id), actor)
            IN  IF gate # 0
                THEN /\ lastResp' = Resp("deleteComment", actor, id, NoBody, gate)
                     /\ UNCHANGED reqs
                ELSE /\ lastResp' = NoResp
                     /\ Start(s, "deleteComment", "delete", actor, id, NoBody, {})

DeleteCommentDelete(s) ==
    LET r == reqs[s] IN
    /\ r.kind = "deleteComment" /\ r.pc = "delete"
    /\ Finish(s)
    /\ UNCHANGED <<forum_posts, nextPostId, nextCommentId, created201, deleted200P>>
    /\ \E fault \in BOOLEAN :
       LET status == DeleteCommentStatus(fault)
       IN  /\ comments' = IF fault THEN comments ELSE DeleteCommentRow(comments, r.id)
           /\ lastResp' = [Resp("deleteComment", r.actor, r.id, NoBody, status)
                             EXCEPT !.fault = fault]
           /\ deleted200C' = IF status = 200 THEN deleted200C \cup {r.id}
                             ELSE deleted200C

(***************************************************************************)
(* The forum API under concurrent requests.                                *)
(***************************************************************************)
\* A request is received (the model admits MaxRequests of them), or a
\* request in flight runs its next statement.
Accept == requests < MaxRequests /\ requests' = requests + 1 /\ UNCHANGED viewVars
Continue == UNCHANGED requests /\ UNCHANGED viewVars

ServerNext ==
    \/ Accept /\ GetPosts
    \/ Accept /\ \E a \in Users, b \in PostBodies : CreatePost(a, b)
    \/ Accept /\ \E a \in Users, i \in PostIds, b \in CommentBodies : CreateComment(a, i, b)
    \/ Accept /\ \E s \in Slots, a \in Users, i \in PostIds, b \in PostBodies : PutPostStart(s, a, i, b)
    \/ Continue /\ \E s \in Slots : PutPostUpdate(s)
    \/ Accept /\ \E s \in Slots, a \in Users, i \in PostIds : DeletePostStart(s, a, i)
    \/ Continue /\ \E s \in Slots : DeletePostComments(s)
    \/ Continue /\ \E s \in Slots : DeletePostPost(s)
    \/ Accept /\ \E s \in Slots, a \in Users, i \in CommentIds, b \in CommentBodies : PutCommentStart(s, a, i, b)
    \/ Continue /\ \E s \in Slots : PutCommentUpdate(s)
    \/ Accept /\ \E s \in Slots, a \in Users, i \in CommentIds : DeleteCommentStart(s, a, i)
    \/ Continue /\ \E s \in Slots : DeleteCommentDelete(s)

(***************************************************************************)
(* The forum page.  A post list the server returns is one of FetchData;    *)
(* the page's handlers run to their first await in the step of the user    *)
(* event, and resume, in any order, when the response arrives.  A handler  *)
(* that resumes reads the state variables of the render it was created     *)
(* in: handleAddComment keeps the commentInputs of that render.            *)
(***************************************************************************)
MaxViewPosts == 2
MaxEvents == 4

ViewPostIds == 1..MaxViewPosts
CallSlots == {1, 2}
Text == {"", "a"}
Outcomes == {"ok", "notOk", "threw"}

NoUser == [id |-> 0, role |-> "none"]
ViewUsers == {[id |-> 1, role |-> "user"], [id |-> 2, role |-> "admin"]}
NoEdit == [id |-> 0, title |-> "", content |-> ""]
EmptyDraft == [title |-> "", content |-> ""]

\* A row of GET /api/forum/posts as the page receives it; `comments` may be
\* null in the JSON (present = FALSE).
Row(i) ==
    [id |-> i, title |-> "a", content |-> "a", user_id |-> IF i = 2 THEN 2 ELSE 1,
     comments |-> IF i = 1
                  THEN [present |-> TRUE,
                        items |-> <<[id |-> 1, content |-> "a", author_id |-> 2]>>]
                  ELSE [present |-> FALSE, items |-> <<>>]]
Data(n) == [i \in 1..n |-> Row(n + 1 - i)]
FetchData == {Data(n) : n \in 0..MaxViewPosts}

\* data.map(p => ({...p, comments: (p.comments || []).map(...)}))
MapPosts(data) ==
    [i \in DOMAIN data |->
        [id |-> data[i].id, title |-> data[i].title, content |-> data[i].content,
         user_id |-> data[i].user_id,
         comments |-> IF data[i].comments.present THEN data[i].comments.items
                      ELSE <<>>]]

IdleCall == [kind |-> "idle", pc |-> "idle", id |-> 0, inputs |-> <<>>]
Call(kind, pc, id, inputs) == [kind |-> kind, pc |-> pc, id |-> id, inputs |-> inputs]
NoEffect == [handler |-> "none", outcome |-> "none"]
Effect(handler, outcome) == [handler |-> handler, outcome |-> outcome]

ViewInit ==
    /\ posts = <<>>
    /\ showNewPostForm = FALSE
    /\ newPost = EmptyDraft
    /\ commentInputs = <<>>
    /\ loading = TRUE
    /\ currentUser = NoUser
    /\ editingPost = NoEdit
    /\ editingComment = NoEdit
    /\ calls = [c \in CallSlots |-> IdleCall]
    /\ mounted = FALSE
    /\ events = 0
    /\ lastEffect = NoEffect
    /\ inFlight = <<>>
    /\ overtaken = {}
    /\ lastList = <<>>
    /\ arrivedOvertaken = FALSE
    /\ changedDrafts = {}

\* A user event is handled (the model admits MaxEvents of them), or an
\* awaited response arrives.
UserEvent ==
    /\ mounted /\ events < MaxEvents /\ events' = events + 1
    /\ lastEffect' = NoEffect
    /\ arrivedOvertaken' = FALSE
    /\ changedDrafts' = {}
    /\ UNCHANGED <<serverVars, mounted, inFlight, overtaken, lastList>>
Arrival == UNCHANGED <<serverVars, mounted, events>>

HasFreeCall == \E c \in CallSlots : calls[c] = IdleCall
FreeCall == CHOOSE c \in CallSlots : calls[c] = IdleCall /\ \A d \in CallSlots : calls[d] = IdleCall => c <= d
Send(kind, id, inputs) ==
    /\ HasFreeCall
    /\ calls' = [calls EXCEPT ![FreeCall] = Call(kind, "mutation", id, inputs)]

VisiblePosts == {posts[i] : i \in DOMAIN posts}
VisibleComments == UNION {{p.comments[j] : j \in DOMAIN p.comments} : p \in VisiblePosts}

canEditPost(post) ==
    currentUser # NoUser /\ (currentUser.id = post.user_id \/ currentUser.role = "admin")
canEditComment(comment) ==
    currentUser # NoUser /\ (currentUser.id = comment.author_id \/ currentUser.role = "admin")

\* Mutants: the `return` after the alert is missing; the state updates and
\* the re-fetch sit in a finally.
ProceedsIfResponded(outcome) == outcome \in {"ok", "notOk"}
ProceedsInFinally(outcome) == TRUE

\* `if (!res.ok) { alert(...); return; }` inside try/catch: the handler goes
\* on to its state updates and its re-fetch only after an OK response.
Proceeds(outcome) == outcome = "ok"

\* fetchPosts up to its await: setLoading(true) and the GET is sent.
EnterFetchPosts(c) ==
    /\ loading' = TRUE
    /\ calls' = [calls EXCEPT ![c].pc = "fetch"]
    /\ inFlight' = Append(inFlight, c)

\* What a mutation's handler does when its response arrives, but for its
\* own state updates: alert on a response that is not OK, log on a throw,
\* `await fetchPosts()` otherwise.
Settle(c, outcome) ==
    /\ calls[c].pc = "mutation"
    /\ lastEffect' = Effect(calls[c].kind, outcome)
    /\ IF Proceeds(outcome)
       THEN EnterFetchPosts(c)
       ELSE /\ calls' = [calls EXCEPT ![c] = IdleCall]
            /\ UNCHANGED <<loading, inFlight>>
    /\ arrivedOvertaken' = FALSE
    /\ UNCHANGED <<posts, currentUser, overtaken, lastList>>

(***************************************************************************)
(* Mount: fetchPosts() and fetchCurrentUser() are called.                  *)
(***************************************************************************)
Mount ==
    /\ ~mounted /\ mounted' = TRUE
    /\ loading' = TRUE
    /\ calls' = [calls EXCEPT ![1] = Call("fetchPosts", "fetch", 0, <<>>),
                              ![2] = Call("fetchCurrentUser", "me", 0, <<>>)]
    /\ lastEffect' = NoEffect
    /\ inFlight' = <<1>>
    /\ UNCHANGED <<posts, showNewPostForm, newPost, commentInputs, currentUser,
                   editingPost, editingComment, events, serverVars,
                   overtaken, lastList, arrivedOvertaken, changedDrafts>>

\* The fetchPosts calls issued before the call of slot c, among those
\* awaiting their response.
Position(c) == CHOOSE i \in DOMAIN inFlight : inFlight[i] = c
IssuedBefore(c) == {inFlight[i] : i \in 1..(Position(c) - 1)}

\* Mutant: a response is dropped when a call issued later has answered.
setPostsUnlessOvertaken(c, outcome) == outcome = "ok" /\ c \notin overtaken

\* `if (!res.ok) throw ...; ...; setPosts(mapped)`: the call reaches
\* setPosts after every OK response; it carries no sequence number and
\* nothing cancels it.
setPostsReached(c, outcome) == outcome = "ok"

\* fetchPosts after its await, whoever called it.
fetchPostsArrives(c, outcome, data) ==
    /\ calls[c].pc = "fetch"
    /\ posts' = IF setPostsReached(c, outcome) THEN MapPosts(data) ELSE posts
    /\ loading' = FALSE
    /\ calls' = [calls EXCEPT ![c] = IdleCall]
    /\ lastEffect' = Effect("fetchPosts", outcome)
    /\ inFlight' = SelectSeq(inFlight, LAMBDA d : d # c)
    /\ overtaken' = IF outcome = "ok" THEN (overtaken \cup IssuedBefore(c)) \ {c}
                                      ELSE overtaken \ {c}
    /\ lastList' = IF outcome = "ok" THEN data ELSE lastList
    /\ arrivedOvertaken' = (c \in overtaken)
    /\ changedDrafts' = {}
    /\ UNCHANGED <<showNewPostForm, newPost, commentInputs, currentUser,
                   editingPost, editingComment>>

fetchCurrentUserArrives(c, outcome, user) ==
    /\ calls[c].pc = "me"
    /\ currentUser' = IF outcome = "ok" THEN user ELSE currentUser
    /\ calls' = [calls EXCEPT ![c] = IdleCall]
    /\ lastEffect' = Effect("fetchCurrentUser", outcome)
    /\ arrivedOvertaken' = FALSE
    /\ changedDrafts' = {}
    /\ UNCHANGED <<inFlight, overtaken, lastList>>
    /\ UNCHANGED <<posts, showNewPostForm, newPost, commentInputs, loading,
                   editingPost, editingComment>>

(***************************************************************************)
(* The new-post form.                                                      *)
(***************************************************************************)
ToggleNewPostForm ==
    /\ showNewPostForm' = ~showNewPostForm
    /\ UNCHANGED <<posts, newPost, commentInputs, loading, currentUser,
                   editingPost, editingComment, calls>>

CancelNewPostForm ==
    /\ showNewPostForm /\ showNewPostForm' = FALSE
    /\ UNCHANGED <<posts, newPost, commentInputs, loading, currentUser,
                   editingPost, editingComment, calls>>

TypeNewPost(field, text) ==
    /\ showNewPostForm /\ newPost[field] # text
    /\ newPost' = [newPost EXCEPT ![field] = text]
    /\ UNCHANGED <<posts, showNewPostForm, commentInputs, loading, currentUser,
                   editingPost, editingComment, calls>>

handleCreatePost ==
    /\ showNewPostForm
    /\ IF Falsy(newPost.title) \/ Falsy(newPost.content)
       THEN UNCHANGED calls
       ELSE Send("handleCreatePost", 0, <<>>)
    /\ UNCHANGED viewState

handleCreatePostArrives(c, outcome) ==
    /\ calls[c].kind = "handleCreatePost"
    /\ Settle(c, outcome)
    /\ IF Proceeds(outcome)
       THEN newPost' = EmptyDraft /\ showNewPostForm' = FALSE
       ELSE UNCHANGED <<newPost, showNewPostForm>>
    /\ UNCHANGED <<commentInputs, editingPost, editingComment>>
    /\ changedDrafts' = {}

(***************************************************************************)
(* Like, and the comment input of a post.                                  *)
(***************************************************************************)
handleLikePost(postId) ==
    /\ \E p \in VisiblePosts : p.id = postId
    /\ posts' = [i \in DOMAIN posts |-> posts[i]]
    /\ UNCHANGED <<showNewPostForm, newPost, commentInputs, loading, currentUser,
                   editingPost, editingComment, calls>>

\* value={commentInputs[post.id] || ''}: what the comment input of a post shows.
Draft(inputs, postId) == IF postId \in DOMAIN inputs THEN inputs[postId] ELSE ""

TypeComment(postId, text) ==
    /\ \E p \in VisiblePosts : p.id = postId
    /\ (IF postId \in DOMAIN commentInputs THEN commentInputs[postId] ELSE "") # text
    /\ commentInputs' = With(commentInputs, postId, text)
    /\ UNCHANGED <<posts, showNewPostForm, newPost, loading, currentUser,
                   editingPost, editingComment, calls>>

handleAddComment(postId) ==
    /\ \E p \in VisiblePosts : p.id = postId
    /\ IF postId \notin DOMAIN commentInputs \/ Falsy(commentInputs[postId])
       THEN UNCHANGED calls
       ELSE Send("handleAddComment", postId, commentInputs)
    /\ UNCHANGED viewState

handleAddCommentArrives(c, outcome) ==
    /\ calls[c].kind = "handleAddComment"
    /\ Settle(c, outcome)
    /\ IF Proceeds(outcome)
       THEN commentInputs' = With(calls[c].inputs, calls[c].id, "")
       ELSE UNCHANGED commentInputs
    /\ changedDrafts' = {i \in ViewPostIds : Draft(commentInputs', i) # Draft(commentInputs, i)}
    /\ UNCHANGED <<showNewPostForm, newPost, editingPost, editingComment>>

(***************************************************************************)
(* Editing and deleting a post.                                            *)
(***************************************************************************)
handleEditPost(postId) ==
    /\ \E p \in VisiblePosts :
          /\ p.id = postId /\ canEditPost(p)
          /\ editingPost' = [id |-> postId, title |-> p.title, content |-> p.content]
    /\ UNCHANGED <<posts, showNewPostForm, newPost, commentInputs, loading,
                   currentUser, editingComment, calls>>

TypeEditPost(field, text) ==
    /\ editingPost # NoEdit /\ editingPost[field] # text
    /\ editingPost' = [editingPost EXCEPT ![field] = text]
    /\ UNCHANGED <<posts, showNewPostForm, newPost, commentInputs, loading,
                   currentUser, editingComment, calls>>

CancelEditPost ==
    /\ editingPost # NoEdit /\ editingPost' = NoEdit
    /\ UNCHANGED <<posts, showNewPostForm, newPost, commentInputs, loading,
                   currentUser, editingComment, calls>>

handleSaveEditPost ==
    /\ editingPost # NoEdit
    /\ Send("handleSaveEditPost", editingPost.id, <<>>)
    /\ UNCHANGED viewState

handleSaveEditPostArrives(c, outcome) ==
    /\ calls[c].kind = "handleSaveEditPost"
    /\ Settle(c, outcome)
    /\ editingPost' = IF Proceeds(outcome) THEN NoEdit ELSE editingPost
    /\ UNCHANGED <<showNewPostForm, newPost, commentInputs, editingComment>>
    /\ changedDrafts' = {}

handleDeletePost(postId, confirmed) ==
    /\ \E p \in VisiblePosts : p.id = postId /\ canEditPost(p)
    /\ IF confirmed THEN Send("handleDeletePost", postId, <<>>) ELSE UNCHANGED calls
    /\ UNCHANGED viewState

handleDeletePostArrives(c, outcome) ==
    /\ calls[c].kind = "handleDeletePost"
    /\ Settle(c, outcome)
    /\ UNCHANGED <<showNewPostForm, newPost, commentInputs, editingPost, editingComment>>
    /\ changedDrafts' = {}

(***************************************************************************)
(* Editing and deleting a comment.  The edit box of a comment replaces its *)
(* edit and delete buttons while editingComment names it.                  *)
(***************************************************************************)
handleEditComment(commentId) ==
    /\ \E cm \in VisibleComments :
          /\ cm.id = commentId /\ canEditComment(cm) /\ editingComment.id # commentId
          /\ editingComment' = [id |-> commentId, title |-> "", content |-> cm.content]
    /\ UNCHANGED <<posts, showNewPostForm, newPost, commentInputs, loading,
                   currentUser, editingPost, calls>>

EditBoxShown == \E cm \in VisibleComments : cm.id = editingComment.id

TypeEditComment(text) ==
    /\ EditBoxShown /\ editingComment.content # text
    /\ editingComment' = [editingComment EXCEPT !.content = text]
    /\ UNCHANGED <<posts, showNewPostForm, newPost, commentInputs, loading,
                   currentUser, editingPost, calls>>

CancelEditComment ==
    /\ EditBoxShown /\ editingComment' = NoEdit
    /\ UNCHANGED <<posts, showNewPostForm, newPost, commentInputs, loading,
                   currentUser, editingPost, calls>>

handleSaveEditComment ==
    /\ EditBoxShown
    /\ Send("handleSaveEditComment", editingComment.id, <<>>)
    /\ UNCHANGED viewState

handleSaveEditCommentArrives(c, outcome) ==
    /\ calls[c].kind = "handleSaveEditComment"
    /\ Settle(c, outcome)
    /\ editingComment' = IF Proceeds(outcome) THEN NoEdit ELSE editingComment
    /\ UNCHANGED <<showNewPostForm, newPost, commentInputs, editingPost>>
    /\ changedDrafts' = {}

handleDeleteComment(commentId, confirmed) ==
    /\ \E cm \in VisibleComments :
          cm.id = commentId /\ canEditComment(cm) /\ editingComment.id # commentId
    /\ IF confirmed THEN Send("handleDeleteComment", commentId, <<>>) ELSE UNCHANGED calls
    /\ UNCHANGED viewState

handleDeleteCommentArrives(c, outcome) ==
    /\ calls[c].kind = "handleDeleteComment"
    /\ Settle(c, outcome)
    /\ UNCHANGED <<showNewPostForm, newPost, commentInputs, editingPost, editingComment>>
    /\ changedDrafts' = {}

(***************************************************************************)
(* The forum page under user events and responses in any order.            *)
(***************************************************************************)
ViewNext ==
    \/ Mount
    \/ Arrival /\ \E c \in CallSlots, o \in Outcomes, d \in FetchData : fetchPostsArrives(c, o, d)
    \/ Arrival /\ \E c \in CallSlots, o \in Outcomes, u \in ViewUsers : fetchCurrentUserArrives(c, o, u)
    \/ UserEvent /\ ToggleNewPostForm
    \/ UserEvent /\ CancelNewPostForm
    \/ UserEvent /\ \E f \in {"title", "content"}, t \in Text : TypeNewPost(f, t)
    \/ UserEvent /\ handleCreatePost
    \/ Arrival /\ \E c \in CallSlots, o \in Outcomes : handleCreatePostArrives(c, o)
    \/ UserEvent /\ \E i \in ViewPostIds : handleLikePost(i)
    \/ UserEvent /\ \E i \in ViewPostIds, t \in Text : TypeComment(i, t)
    \/ UserEvent /\ \E i \in ViewPostIds : handleAddComment(i)
    \/ Arrival /\ \E c \in CallSlots, o \in Outcomes : handleAddCommentArrives(c, o)
    \/ UserEvent /\ \E i \in ViewPostIds : handleEditPost(i)
    \/ UserEvent /\ \E f \in {"title", "content"}, t \in Text : TypeEditPost(f, t)
    \/ UserEvent /\ CancelEditPost
    \/ UserEvent /\ handleSaveEditPost
    \/ Arrival /\ \E c \in CallSlots, o \in Outcomes : handleSaveEditPostArrives(c, o)
    \/ UserEvent /\ \E i \in ViewPostIds, y \in BOOLEAN : handleDeletePost(i, y)
    \/ Arrival /\ \E c \in CallSlots, o \in Outcomes : handleDeletePostArrives(c, o)
    \/ UserEvent /\ \E i \in ViewPostIds : handleEditComment(i)
    \/ UserEvent /\ \E t \in Text : TypeEditComment(t)
    \/ UserEvent /\ CancelEditComment
    \/ UserEvent /\ handleSaveEditComment
    \/ Arrival /\ \E c \in CallSlots, o \in Outcomes : handleSaveEditCommentArrives(c, o)
    \/ UserEvent /\ \E i \in ViewPostIds, y \in BOOLEAN : handleDeleteComment(i, y)
    \/ Arrival /\ \E c \in CallSlots, o \in Outcomes : handleDeleteCommentArrives(c, o)

Init == ServerInit /\ ViewInit
Next == ServerNext
Spec == Init /\ [][Next]_vars
ViewSpec == Init /\ [][ViewNext]_vars

(***************************************************************************)
(* Properties of the forum API.                                            *)
(***************************************************************************)
IsOwnerOrAdmin(actor, ownerId) == actor = ownerId \/ Role(actor) = "admin"
PostBodyComplete(b) == b.title \notin {Missing, ""} /\ b.content \notin {Missing, ""}
CommentBodyComplete(b) == b.content \notin {Missing, ""}
Quiescent == \A s \in Slots : reqs[s] = Idle

\* The response sent by this step answers a PUT or DELETE of an existing
\* resource by an actor who is neither its owner nor an admin, and no
\* statement of the store failed.
StrangerOnPost(r) ==
    /\ r.kind \in {"putPost", "deletePost"} /\ ~r.fault
    /\ r.id \in DOMAIN forum_posts /\ ~IsOwnerOrAdmin(r.actor, forum_posts[r.id].user_id)
StrangerOnComment(r) ==
    /\ r.kind \in {"putComment", "deleteComment"} /\ ~r.fault
    /\ r.id \in DOMAIN comments /\ ~IsOwnerOrAdmin(r.actor, comments[r.id].user_id)
BodyComplete(r) ==
    CASE r.kind = "putPost" -> PostBodyComplete(r.body)
      [] r.kind = "putComment" -> CommentBodyComplete(r.body)
      [] OTHER -> TRUE

\* C1, as stated: a PUT or DELETE by an actor who is neither the resource's
\* owner nor an admin is always answered 403, whatever the body.
C1_StrangerAlways403 ==
    [][ (StrangerOnPost(lastResp') \/ StrangerOnComment(lastResp'))
            => lastResp'.status = 403 ]_vars

\* C1, amended: such a request is answered 403 when it is a DELETE or a PUT
\* whose body has its required fields non-empty; a PUT whose body has a
\* missing or empty required field is answered 400, before ownership is
\* looked at.  Neither changes the store.
C1_Stranger403UnlessInvalidBody ==
    [][ (StrangerOnPost(lastResp') \/ StrangerOnComment(lastResp'))
            => /\ lastResp'.status = IF BodyComplete(lastResp') THEN 403 ELSE 400
               /\ forum_posts' = forum_posts /\ comments' = comments ]_vars

C1_Witness ==
    /\ lastResp.kind = "putComment" /\ lastResp.status = 403
    /\ lastResp.id \in DOMAIN comments
    /\ ~IsOwnerOrAdmin(lastResp.actor, comments[lastResp.id].user_id)

\* C2: a step changes or removes an existing post or comment by a PUT or
\* DELETE targeting it only for a request whose actor is the resource's
\* owner or an admin (a comment is also removed by the DELETE of its post,
\* by an actor who may delete that post); a PUT answered 200 on an existing
\* post leaves the submitted title and content in its row.
C2_OnlyOwnerOrAdminWrites ==
    [][ /\ \A p \in DOMAIN forum_posts :
            (p \notin DOMAIN forum_posts' \/ forum_posts'[p] # forum_posts[p]) =>
                \E s \in Slots :
                    /\ reqs[s].kind \in {"putPost", "deletePost"}
                    /\ reqs[s].id = p /\ reqs'[s] = Idle
                    /\ IsOwnerOrAdmin(reqs[s].actor, forum_posts[p].user_id)
        /\ \A c \in DOMAIN comments :
            (c \notin DOMAIN comments' \/ comments'[c] # comments[c]) =>
                \E s \in Slots :
                    /\ reqs'[s] # reqs[s]
                    /\ \/ /\ reqs[s].kind \in {"putComment", "deleteComment"}
                          /\ reqs[s].id = c
                          /\ IsOwnerOrAdmin(reqs[s].actor, comments[c].user_id)
                       \/ /\ reqs[s].kind = "deletePost"
                          /\ reqs[s].id = comments[c].post_id
                          /\ comments[c].post_id \in DOMAIN forum_posts
                          /\ IsOwnerOrAdmin(reqs[s].actor, forum_posts[comments[c].post_id].user_id)
        /\ (lastResp'.kind = "putPost" /\ lastResp'.status = 200
              /\ lastResp'.id \in DOMAIN forum_posts)
            => /\ lastResp'.id \in DOMAIN forum_posts'
               /\ forum_posts'[lastResp'.id].title = lastResp'.body.title
               /\ forum_posts'[lastResp'.id].content = lastResp'.body.content
      ]_vars

C2_Witness ==
    /\ lastResp.kind = "putPost" /\ lastResp.status = 200
    /\ Role(lastResp.actor) = "admin"
    /\ lastResp.id \in DOMAIN forum_posts
    /\ forum_posts[lastResp.id].user_id # lastResp.actor
    /\ forum_posts[lastResp.id].title = lastResp.body.title

\* C3: with no request in flight, GET /forum/posts returns exactly the posts
\* that a POST returned with 201 and that no DELETE answered 200 has removed.
C3_GetListsCreatedNotDeleted ==
    Quiescent =>
        /\ {row.id : row \in SelectPosts(forum_posts, comments)} = created201 \ deleted200P
        /\ (lastResp.kind = "getPosts" /\ lastResp.status = 200)
              => {row.id : row \in lastResp.list} = created201 \ deleted200P

C3_Witness ==
    /\ Quiescent /\ lastResp.kind = "getPosts" /\ lastResp.status = 200
    /\ created201 # {} /\ deleted200P # {}

\* C4: once a DELETE of post P was answered 200, no comment of the store
\* references P, at the response and ever after, and no GET shows a comment
\* under P, whatever comments were created on P while the DELETE ran.
C4_DeletedPostHasNoComments ==
    /\ (lastResp.kind = "deletePost" /\ lastResp.status = 200)
          => CommentsOf(comments, lastResp.id) = {}
    /\ \A p \in deleted200P :
          /\ CommentsOf(comments, p) = {}
          /\ lastResp.kind = "getPosts" =>
                \A row \in lastResp.list : row.id = p => row.comments = {}

\* A DELETE answered 200 that removed a comment created on its post after
\* the DELETE had passed its ownership check.
C4_Witness ==
    /\ lastResp.kind = "deletePost" /\ lastResp.status = 200
    /\ lastResp.had = {} /\ requests = 3
    /\ nextPostId = 2 /\ nextCommentId = 2 /\ comments = <<>>

\* C5: a POST /forum/posts whose title or content is missing or empty is
\* answered 400 and leaves the posts of the store as they were.
C5_InvalidPostRejected ==
    [][ (lastResp'.kind = "createPost" /\ ~PostBodyComplete(lastResp'.body))
            => lastResp'.status = 400 /\ forum_posts' = forum_posts
                /\ nextPostId' = nextPostId ]_vars

C5_Witness ==
    /\ lastResp.kind = "createPost" /\ lastResp.status = 400
    /\ lastResp.body.content = "" /\ forum_posts # <<>>

\* C6: a DELETE received for a post or comment id that a DELETE was already
\* answered 200 for is answered 404 (500 if the store fails on its SELECT),
\* never runs a statement that writes, and changes nothing in the store.
C6_Received(kind, done) ==
    /\ requests' # requests
    /\ \/ lastResp'.kind = kind /\ lastResp'.id \in done
       \/ \E s \in Slots : /\ reqs'[s] # reqs[s] /\ reqs'[s].kind = kind
                           /\ reqs'[s].id \in done
C7_CommentsReferenceLivePosts ==
    /\ [](\A c \in DOMAIN comments : comments[c].post_id \in DOMAIN forum_posts)
    /\ [][ /\ (lastResp'.kind = "createComment" /\ lastResp'.id \notin DOMAIN forum_posts
                 /\ CommentBodyComplete(lastResp'.body))
              => /\ lastResp'.status = 500
                 /\ comments' = comments /\ nextCommentId' = nextCommentId
           /\ \A p \in DOMAIN forum_posts \ DOMAIN forum_posts' : CommentsOf(comments, p) = {}
         ]_vars

\* The DELETE of a post refused by the store because a comment created
\* while it ran references the post.
C7_Witness ==
    /\ lastResp.kind = "deletePost" /\ lastResp.status = 500 /\ ~lastResp.fault
    /\ lastResp.id \in DOMAIN forum_posts
    /\ CommentsOf(comments, lastResp.id) # {}

\* C8: a DELETE of a post whose second statement fails is answered 500; the
\* step neither removes the post nor restores a comment: none of the
\* comments the post had when the request began is in the store, and the
\* post is still there (unless another DELETE of it was answered 200).
C8_FailedDeleteKeepsPostLosesComments ==
    [][ \A s \in Slots :
          (reqs[s].kind = "deletePost" /\ reqs[s].pc = "post"
             /\ reqs'[s] # reqs[s] /\ lastResp'.status # 200)
          => /\ lastResp'.status = 500
             /\ forum_posts' = forum_posts /\ comments' = comments
             /\ reqs[s].had \cap DOMAIN comments' = {}
             /\ reqs[s].id \in DOMAIN forum_posts' \/ reqs[s].id \in deleted200P
      ]_vars

C8_Witness ==
    /\ lastResp.kind = "deletePost" /\ lastResp.status = 500 /\ lastResp.fault
    /\ lastResp.had # {} /\ lastResp.id \in DOMAIN forum_posts
    /\ comments = <<>>

(***************************************************************************)
(* Properties of the forum page.                                           *)
(***************************************************************************)
Mutations == {"handleCreatePost", "handleAddComment", "handleSaveEditPost",
              "handleDeletePost", "handleSaveEditComment", "handleDeleteComment"}
\* This step handles the response of a mutation's request.
MutationSettled == lastEffect'.handler \in Mutations
\* This step sends a GET /api/forum/posts from the handler that settled.
RefetchSent ==
    \E c \in CallSlots : /\ calls[c].pc = "mutation" /\ calls'[c].pc = "fetch"
                         /\ calls'[c].kind = lastEffect'.handler
NoFetchSent ==
    \A c \in CallSlots : calls'[c].pc = "fetch" => calls[c].pc = "fetch"

\* C9, as stated: every mutation whose request was sent is followed by a
\* re-fetch of the post list, and its response never changes the list.
C9_EveryMutationRefetches ==
    [][ MutationSettled => RefetchSent /\ posts' = posts ]_vars

\* C9, amended: a mutation whose request returns an OK response is followed
\* by a re-fetch, sent in the step that handles the response; one whose
\* request returns a non-OK response or throws sends no re-fetch.  In both
\* cases the step leaves the post list as it is: the list only changes when
\* a fetchPosts response arrives.
C9_OkMutationRefetches ==
    [][ /\ (MutationSettled /\ lastEffect'.outcome = "ok")
              => RefetchSent /\ posts' = posts
        /\ (MutationSettled /\ lastEffect'.outcome # "ok")
              => NoFetchSent /\ posts' = posts
        /\ posts' # posts => lastEffect' = Effect("fetchPosts", "ok")
      ]_vars

C9_Witness ==
    /\ lastEffect = Effect("handleCreatePost", "ok")
    /\ \E c \in CallSlots : calls[c] = Call("handleCreatePost", "fetch", 0, <<>>)
    /\ posts # <<>>

\* C10: the step that handles a mutation's non-OK response or throw leaves
\* the post list, the new-post draft and form visibility, the comment
\* drafts and the post and comment edit drafts unchanged.
C10_FailedMutationKeepsState ==
    [][ (MutationSettled /\ lastEffect'.outcome \in {"notOk", "threw"})
            => UNCHANGED <<posts, showNewPostForm, newPost, commentInputs,
                           editingPost, editingComment, loading, currentUser>>
      ]_vars

C10_Witness ==
    /\ lastEffect = Effect("handleAddComment", "notOk")
    /\ \E i \in DOMAIN commentInputs : commentInputs[i] = "a"
    /\ posts # <<>>

\* C11: the post list is at all times the list of the fetchPosts response
\* that arrived last with a list (a response that is not OK, or a throw,
\* carries none and leaves the list), hence also once every fetch has
\* completed, and also when that response belongs to a fetch issued before
\* one that was answered earlier.
C11_LastArrivalShown == posts = MapPosts(lastList)

C11_Witness ==
    /\ lastEffect = Effect("fetchPosts", "ok") /\ arrivedOvertaken
    /\ inFlight = <<>>
    /\ posts # <<>> /\ posts = MapPosts(lastList)

(***************************************************************************)
(* PUT racing with DELETE.                                                 *)
(***************************************************************************)
\* The response carries the row `id` of `table` with the submitted values,
\* and the table holds that row.
CarriesUpdatedRow(r, table) ==
    /\ r.record # NoRecord /\ r.record.id = r.id
    /\ r.record.content = r.body.content
    /\ r.id \in DOMAIN table /\ table[r.id].content = r.body.content

AddCommentCompleted(p) ==
    /\ lastEffect' = Effect("handleAddComment", "ok")
    /\ \E c \in CallSlots :
          /\ calls[c].kind = "handleAddComment" /\ calls[c].pc = "mutation"
          /\ calls'[c].pc = "fetch" /\ calls[c].id = p

\* C13, as stated: the completion of a successful add-comment on post P
\* clears P's comment draft and leaves the draft of every other post Q as
\* it is, text typed into it while the request was in flight included.
C13_AddCommentClearsOnlyItsDraft ==
    [][ \A p \in ViewPostIds :
          AddCommentCompleted(p)
            => /\ Draft(commentInputs', p) = ""
               /\ \A q \in ViewPostIds \ {p} :
                     Draft(commentInputs', q) = Draft(commentInputs, q)
      ]_vars

\* The add-comment on post 1 has completed and has replaced the draft of
\* post 2, typed while the request was in flight, by its value at the
\* time of the click.
C13_Witness ==
    /\ lastEffect = Effect("handleAddComment", "ok")
    /\ \E c \in CallSlots : /\ calls[c].kind = "handleAddComment"
                             /\ calls[c].pc = "fetch" /\ calls[c].id = 1
    /\ 2 \in changedDrafts
    /\ Draft(commentInputs, 2) = ""

====
